---- MODULE Spec2Model ----
(***************************************************************************)
(* Model of the DOCX table pipeline of CNE_AI:                             *)
(*   cne_ai/docx_tables.py            _normalise_cell, extract_tables,     *)
(*                                    export_tables_to_csv                 *)
(*   scripts/export_operator_outputs.py  _export_to_directories,           *)
(*                                    _export_to_zip, main                 *)
(* Strings are sequences of one-character tokens, a path is a sequence of  *)
(* name components, and the filesystem is a function from paths to nodes.  *)
(***************************************************************************)
EXTENDS Integers, Sequences, FiniteSets, TLC

\* ------------------------------------------------------------------ bounds

\* The most meaningful tables a document of the export runs holds.
MaxTables == 2
\* The tables of a document handed to extract_tables alone.
MaxDocTables == 3
\* The most tables of a document of two runs at once.
ConcTables == 1
\* The longest cell text handed to _normalise_cell alone.
MaxCellLen == 5

\* ------------------------------------------------------------- characters

CR == "CR"
LF == "LF"
SP == "SP"
DQ == "DQ"
COMMA == "COMMA"

\* str.isspace for the characters of the model.
IsSpace(c) == c \in {CR, LF, SP}

\* Python's None handed to _normalise_cell (no character sequence equals it).
None == <<"None">>

Max(a, b) == IF a >= b THEN a ELSE b

\* ---------------------------------------------------------- normaliser

\* str.replace("\r\n", "\n"): left to right, non-overlapping.
RECURSIVE ReplaceCRLF(_)
ReplaceCRLF(s) ==
    IF Len(s) = 0 THEN <<>>
    ELSE IF Len(s) >= 2 /\ s[1] = CR /\ s[2] = LF
         THEN <<LF>> \o ReplaceCRLF(SubSeq(s, 3, Len(s)))
         ELSE <<s[1]>> \o ReplaceCRLF(Tail(s))

RECURSIVE LStrip(_)
LStrip(s) == IF Len(s) > 0 /\ IsSpace(s[1]) THEN LStrip(Tail(s)) ELSE s

RECURSIVE RStrip(_)
RStrip(s) ==
    IF Len(s) > 0 /\ IsSpace(s[Len(s)]) THEN RStrip(SubSeq(s, 1, Len(s) - 1)) ELSE s

\* str.strip()
Strip(s) == RStrip(LStrip(s))

_normalise_cell(text) == IF text = None THEN <<>> ELSE Strip(ReplaceCRLF(text))

\* ----------------------------------------------------------- extract_tables

\* rows of one table: every cell of every row normalised (lines 34-36).
TableRows(table) ==
    [i \in 1..Len(table) |->
        [j \in 1..Len(table[i]) |-> _normalise_cell(table[i][j])]]

\* HasData looking at the first row only.
HasDataFirstRow(rows) ==
    Len(rows) > 0 /\ \E j \in 1..Len(rows[1]) : rows[1][j] # <<>>

\* any(any(cell for cell in row) for row in rows)  (line 37)
HasData(rows) ==
    \E i \in 1..Len(rows) : \E j \in 1..Len(rows[i]) : rows[i][j] # <<>>

\* The loop over document.tables (lines 32-39).
RECURSIVE ExtractLoop(_, _)
ExtractLoop(doc, tables) ==
    IF doc = <<>> THEN tables
    ELSE LET rows == TableRows(Head(doc))
         IN ExtractLoop(Tail(doc),
                        IF HasData(rows) THEN Append(tables, rows) ELSE tables)

\* ----------------------------------------------------------- csv.excel

NeedsQuote(cell) ==
    \E k \in 1..Len(cell) : cell[k] \in {COMMA, DQ, CR, LF}

RECURSIVE DoubleQuotes(_)
DoubleQuotes(s) ==
    IF s = <<>> THEN <<>>
    ELSE (IF s[1] = DQ THEN <<DQ, DQ>> ELSE <<s[1]>>) \o DoubleQuotes(Tail(s))

CsvField(cell) ==
    IF NeedsQuote(cell) THEN <<DQ>> \o DoubleQuotes(cell) \o <<DQ>> ELSE cell

RECURSIVE JoinFields(_)
JoinFields(row) ==
    IF row = <<>> THEN <<>>
    ELSE IF Len(row) = 1 THEN CsvField(row[1])
    ELSE CsvField(row[1]) \o <<COMMA>> \o JoinFields(Tail(row))

\* csv.writer.writerow: a lone empty field is written quoted; "\r\n" ends the row.
WriteRow(row) ==
    (IF row = << <<>> >> THEN <<DQ, DQ>> ELSE JoinFields(row)) \o <<CR, LF>>

\* The text after writerow has run for the first k rows of table.
RECURSIVE CsvText(_, _)
CsvText(table, k) ==
    IF k = 0 THEN <<>> ELSE CsvText(table, k - 1) \o WriteRow(table[k])

\* ------------------------------------------------------------ paths, nodes

\* pathlib: a name is stem + suffix; a path is its sequence of names, relative to
\* the working directory (the empty path).
Name(stem, suffix) == [stem |-> stem, suffix |-> suffix]

Suffix(path) == path[Len(path)].suffix

\* PurePath.with_suffix: the last name keeps its stem and takes the new suffix.
with_suffix(path, suffix) ==
    [path EXCEPT ![Len(path)] = Name(path[Len(path)].stem, suffix)]

Child(path, name) == Append(path, name)

Under(path, root) ==
    Len(path) > Len(root) /\ SubSeq(path, 1, Len(root)) = root

\* relative_to giving the file's name alone (arcname = file_path.name).
NameOnly(path, root) == <<path[Len(path)]>>

\* PurePath.relative_to
relative_to(path, root) == SubSeq(path, Len(root) + 1, Len(path))

NoPath == <<>>

DirNode == [kind |-> "dir", text |-> <<>>, entries |-> <<>>, doc |-> <<>>]
FileNode(text) == [kind |-> "file", text |-> text, entries |-> <<>>, doc |-> <<>>]
ZipNode(entries) == [kind |-> "file", text |-> <<>>, entries |-> entries, doc |-> <<>>]
DocNode(doc) == [kind |-> "file", text |-> <<>>, entries |-> <<>>, doc |-> doc]
\* A device, FIFO or socket: it exists and is neither a regular file nor a directory.
SpecialNode == [kind |-> "special", text |-> <<>>, entries |-> <<>>, doc |-> <<>>]

\* One member of an archive; Hole is the gap a write past the end of file leaves.
Entry(name, text) == [name |-> name, text |-> text]
Hole == Entry(<<>>, <<>>)

\* Path.exists, Path.is_dir, Path.is_file
Exists(f, path) == path = <<>> \/ path \in DOMAIN f
IsDir(f, path) == path = <<>> \/ (path \in DOMAIN f /\ f[path].kind = "dir")
IsFile(f, path) == path \in DOMAIN f /\ f[path].kind = "file"

Put(f, path, node) ==
    [q \in DOMAIN f \cup {path} |-> IF q = path THEN node ELSE f[q]]

\* Mkdir emptying a directory that exists (rmtree before mkdir).
MkdirFresh(f, path) ==
    LET prefixes == {SubSeq(path, 1, k) : k \in 1..Len(path)}
        kept == {q \in DOMAIN f : ~Under(q, path)}
    IN IF \E q \in prefixes : Exists(f, q) /\ ~IsDir(f, q)
       THEN [err |-> IF Exists(f, path) THEN "FileExistsError" ELSE "NotADirectoryError",
             fs |-> f]
       ELSE [err |-> "",
             fs |-> [q \in kept \cup prefixes |->
                        IF q \in kept THEN f[q] ELSE DirNode]]

\* Path.mkdir(parents=True, exist_ok=True): the missing directories of path are
\* created; a name on the way that exists and is no directory is an error.
Mkdir(f, path) ==
    LET prefixes == {SubSeq(path, 1, k) : k \in 1..Len(path)}
    IN IF \E q \in prefixes : Exists(f, q) /\ ~IsDir(f, q)
       THEN [err |-> IF Exists(f, path) THEN "FileExistsError" ELSE "NotADirectoryError",
             fs |-> f]
       ELSE [err |-> "",
             fs |-> [q \in DOMAIN f \cup prefixes |->
                        IF q \in DOMAIN f THEN f[q] ELSE DirNode]]

\* shutil.rmtree of the scratch directory (TemporaryDirectory.cleanup).
RemoveTree(f, root) ==
    [q \in {r \in DOMAIN f : r # root /\ ~Under(r, root)} |-> f[q]]

\* temp_root.rglob("*.csv")
RglobCsv(f, root) ==
    {q \in DOMAIN f : Under(q, root) /\ Suffix(q) = ".csv"}

\* ------------------------------------------------------------ the registry

\* OPERATORS, in the dictionary's insertion order.
OPERATORS ==
    << [key |-> "A", basename |-> "operator_a_table"],
       [key |-> "B", basename |-> "operator_b_table"] >>

\* destination / f"Operador_{operator}"
OperatorDir(destination, operator) ==
    Child(destination, Name("Operador_" \o operator, ""))

\* CsvPath numbering the files from 0 (enumerate without start=1).
CsvPathFromZero(directory, basename, index) ==
    Child(directory, Name(basename \o "_" \o ToString(index - 1), ".csv"))

\* directory / f"{basename}_{index}.csv"
CsvPath(directory, basename, index) ==
    Child(directory, Name(basename \o "_" \o ToString(index), ".csv"))

\* The archive's path (lines 51-52).
ZipPath(zip_path) ==
    IF Suffix(zip_path) # ".zip" THEN with_suffix(zip_path, ".zip") ELSE zip_path

\* ------------------------------------------------------------ errors

NotFoundError == "FileNotFoundError"
EmptyInputError == "ValueError: no tables with data"
InvalidTargetError == "ValueError: the destination is a file"
WriteError == "OSError"

\* ------------------------------------------------------------ whole runs

\* WriteCsvFile appending to what the file holds (mode "a" for "w").
WriteCsvFileAppend(f, path, table) ==
    Put(f, path,
        FileNode((IF IsFile(f, path) THEN f[path].text ELSE <<>>)
                 \o CsvText(table, Len(table))))

\* One pass of the loop body of export_tables_to_csv (lines 56-61): the file is
\* created or truncated and every row written.
WriteCsvFile(f, path, table) == Put(f, path, FileNode(CsvText(table, Len(table))))

\* export_tables_to_csv run to its end without an error, from table index on.
RECURSIVE ExportTablesRun(_, _, _, _, _)
ExportTablesRun(f, directory, basename, tables, index) ==
    IF index > Len(tables) THEN f
    ELSE ExportTablesRun(
             WriteCsvFile(f, CsvPath(directory, basename, index), tables[index]),
             directory, basename, tables, index + 1)

\* _export_to_directories run to its end without an error, from operator opi on.
RECURSIVE ExportDirectoriesRun(_, _, _, _)
ExportDirectoriesRun(f, destination, tables, opi) ==
    IF opi > Len(OPERATORS) THEN f
    ELSE LET directory == OperatorDir(destination, OPERATORS[opi].key)
         IN ExportDirectoriesRun(
                ExportTablesRun(Mkdir(f, directory).fs, directory,
                                OPERATORS[opi].basename, tables, 1),
                destination, tables, opi + 1)

\* ------------------------------------------------------------ the inputs

Cell1 == <<"a", CR, LF, "a">>
Cell2 == <<SP, "a", SP>>

\* The i-th table with data of a document: i rows of two cells.
DataTable(i) == [r \in 1..i |-> <<Cell1, IF r = 1 THEN Cell2 ELSE <<SP>> >>]
BlankTable == << << <<SP>>, <<>> >>, << <<CR, LF>> >> >>
NoRowsTable == <<>>

\* A document with n tables with data, a blank table after each.
RECURSIVE DocOf(_)
DocOf(n) ==
    IF n = 0 THEN <<NoRowsTable>> ELSE DocOf(n - 1) \o <<DataTable(n), BlankTable>>

DocPath(n) == <<Name("doc" \o ToString(n), ".docx")>>
MissingPath == <<Name("missing", ".docx")>>
InputPaths == {MissingPath} \cup {DocPath(n) : n \in 0..MaxTables}

\* The documents on disk.
DocsFs ==
    [q \in {DocPath(n) : n \in 0..Max(MaxTables, ConcTables)} |->
        DocNode(DocOf(CHOOSE n \in 0..Max(MaxTables, ConcTables) : DocPath(n) = q))]

\* The values of --output.
OutPath == <<Name("out", "")>>
OutputPaths == {OutPath, <<Name("out", ".zip")>>, <<Name("out", ".tar")>>}

\* A destination in use: the tree an earlier directory export of MaxTables tables
\* left at the plain output path, its first file since given another content and
\* a file of another name put beside it.
UsedDestination ==
    LET tree == ExportDirectoriesRun(Mkdir(DocsFs, OutPath).fs, OutPath,
                                     ExtractLoop(DocOf(MaxTables), <<>>), 1)
        directory == OperatorDir(OutPath, OPERATORS[1].key)
    IN Put(Put(tree, CsvPath(directory, OPERATORS[1].basename, 1), FileNode(<<"a">>)),
           Child(directory, Name("notes", ".txt")), FileNode(<<"a">>))

\* What the working directory may hold before a run: the documents and nothing
\* else, or also a regular file at an output path, or a device at the plain output
\* path, or the tree an earlier directory export of k tables left there, or that
\* tree with other files in it.
InitialFilesystems ==
    {DocsFs, UsedDestination}
    \cup {Put(DocsFs, o, FileNode(<<"a">>)) : o \in OutputPaths}
    \cup {Put(DocsFs, OutPath, SpecialNode)}
    \cup {ExportDirectoriesRun(Mkdir(DocsFs, o).fs, o, ExtractLoop(DocOf(k), <<>>), 1) :
            o \in OutputPaths, k \in 1..MaxTables}

\* The names tempfile.mkdtemp draws from.
ScratchNames == {"tmp_x", "tmp_y"}

\* Tables a document handed to extract_tables alone is made of.
RawTables ==
    { NoRowsTable,
      << <<>> >>,
      << << <<>> >> >>,
      BlankTable,
      << << <<>>, <<SP>> >>, << <<LF>>, Cell2 >> >>,
      << << Cell1 >> >> }

RECURSIVE SeqsUpTo(_, _)
SeqsUpTo(S, n) ==
    IF n = 0 THEN {<<>>}
    ELSE LET shorter == SeqsUpTo(S, n - 1)
         IN shorter \cup {Append(s, x) : s \in shorter, x \in S}

\* ------------------------------------------------------------ state

VARIABLES
    fs,     \* the filesystem: path -> node
    call,   \* call[p]: the arguments, locals and position of process p's call
    fs0     \* the filesystem when the calls began

vars == <<fs, call, fs0>>

Procs == {1, 2}

NewCall(entry, input, output, zip) ==
    [entry |-> entry, pc |-> IF entry = "main" THEN "main" ELSE "extract",
     input |-> input, output |-> output, zip |-> zip,
     tables |-> <<>>, opened |-> FALSE,
     tmp |-> NoPath, root |-> NoPath, zpath |-> NoPath,
     opi |-> 0, idx |-> 0, zoff |-> 0, todo |-> {}, err |-> ""]

Off == [NewCall("main", MissingPath, OutPath, FALSE) EXCEPT !.pc = "off"]

\* Raise without the context manager: the error leaves at once.
RaiseNoCleanup(c, e) == [c EXCEPT !.pc = "raised", !.err = e]

\* An exception leaving the frame: inside the with-block of _export_to_zip the
\* TemporaryDirectory's exit runs first (line 54).
Raise(c, e) ==
    IF c.tmp # NoPath
    THEN [c EXCEPT !.pc = "cleanup", !.err = e]
    ELSE [c EXCEPT !.pc = "raised", !.err = e]

\* MissingSource with the check left out.
MissingSourceNever(f, path) == FALSE

\* "not path.exists()" (extract_tables, line 28)
MissingSource(f, path) == ~Exists(f, path)

\* docx.Document(str(path)) (line 31): the container is opened and parsed; a path
\* that holds no file is an error of the package.
Document(f, path) ==
    IF IsFile(f, path) THEN [err |-> "", tables |-> f[path].doc]
    ELSE [err |-> "PackageNotFoundError", tables |-> <<>>]

\* TablesEmpty with the check left out.
TablesEmptyNever(tables) == FALSE

\* "not tables" (line 71)
TablesEmpty(tables) == Len(tables) = 0

\* DestinationIsFile with the check left out.
DestinationIsFileNever(f, destination) == FALSE

\* destination.exists() and destination.is_file()  (line 78)
DestinationIsFile(f, destination) ==
    Exists(f, destination) /\ IsFile(f, destination)

\* Where the loops of _export_to_directories and export_tables_to_csv go after
\* the file at (opi, idx) has been written.
Advance(c) ==
    IF c.idx < Len(c.tables) THEN [c EXCEPT !.idx = c.idx + 1]
    ELSE IF c.opi < Len(OPERATORS)
         THEN [c EXCEPT !.opi = c.opi + 1, !.pc = "mkdir_operator"]
         ELSE [c EXCEPT !.pc = IF c.zip THEN "zip_open" ELSE "done"]

CurrentDir(c) == OperatorDir(c.root, OPERATORS[c.opi].key)
CurrentCsv(c) == CsvPath(CurrentDir(c), OPERATORS[c.opi].basename, c.idx)

\* ------------------------------------------------------------ main

\* main, lines 67-68.
MainCheckInput(p) ==
    LET c == call[p] IN
    /\ c.pc = "main"
    /\ call' = [call EXCEPT ![p] =
                  IF Exists(fs, c.input) THEN [c EXCEPT !.pc = "extract"]
                  ELSE Raise(c, NotFoundError)]
    /\ UNCHANGED <<fs, fs0>>

\* extract_tables, lines 27-39.
ExtractTables(p) ==
    LET c == call[p] IN
    /\ c.pc = "extract"
    /\ call' = [call EXCEPT ![p] =
                  IF MissingSource(fs, c.input) THEN Raise(c, NotFoundError)
                  ELSE LET document == Document(fs, c.input) IN
                       IF document.err # ""
                       THEN Raise([c EXCEPT !.opened = TRUE], document.err)
                       ELSE [c EXCEPT !.opened = TRUE,
                                      !.tables = ExtractLoop(document.tables, <<>>),
                                      !.pc = IF c.entry = "main" THEN "check_tables"
                                             ELSE "done"]]
    /\ UNCHANGED <<fs, fs0>>

\* main, lines 71-75.
MainCheckTables(p) ==
    LET c == call[p] IN
    /\ c.pc = "check_tables"
    /\ call' = [call EXCEPT ![p] =
                  IF TablesEmpty(c.tables) THEN Raise(c, EmptyInputError)
                  ELSE [c EXCEPT !.pc = IF c.zip THEN "zip_begin"
                                        ELSE "check_destination"]]
    /\ UNCHANGED <<fs, fs0>>

\* main, lines 77-80.
MainCheckDestination(p) ==
    LET c == call[p] IN
    /\ c.pc = "check_destination"
    /\ call' = [call EXCEPT ![p] =
                  IF DestinationIsFile(fs, c.output) THEN Raise(c, InvalidTargetError)
                  ELSE [c EXCEPT !.root = c.output, !.pc = "mkdir_root"]]
    /\ UNCHANGED <<fs, fs0>>

\* ------------------------------------------------------------ directories

\* _export_to_directories, line 44.
MkdirRoot(p) ==
    LET c == call[p]
        r == Mkdir(fs, c.root)
    IN /\ c.pc = "mkdir_root"
       /\ fs' = r.fs
       /\ call' = [call EXCEPT ![p] =
                     IF r.err # "" THEN Raise(c, r.err)
                     ELSE [c EXCEPT !.opi = 1, !.pc = "mkdir_operator"]]
       /\ UNCHANGED fs0

\* export_tables_to_csv, lines 51-55: the operator's directory, and the loop's
\* start.
MkdirOperator(p) ==
    LET c == call[p]
        r == Mkdir(fs, CurrentDir(c))
    IN /\ c.pc = "mkdir_operator"
       /\ fs' = r.fs
       /\ call' = [call EXCEPT ![p] =
                     IF r.err # "" THEN Raise(c, r.err)
                     ELSE IF Len(c.tables) = 0 THEN Advance([c EXCEPT !.idx = 0])
                     ELSE [c EXCEPT !.idx = 1, !.pc = "write_csv"]]
       /\ UNCHANGED fs0

\* export_tables_to_csv, lines 56-61: one table written.
WriteCsv(p) ==
    LET c == call[p]
        path == CurrentCsv(c)
    IN /\ c.pc = "write_csv"
       /\ IF IsDir(fs, path) \/ ~IsDir(fs, CurrentDir(c))
          THEN /\ call' = [call EXCEPT ![p] =
                             Raise(c, IF IsDir(fs, path) THEN "IsADirectoryError"
                                      ELSE NotFoundError)]
               /\ UNCHANGED fs
          ELSE /\ fs' = WriteCsvFile(fs, path, c.tables[c.idx])
               /\ call' = [call EXCEPT ![p] = Advance(c)]
       /\ UNCHANGED fs0

\* The same lines with an I/O error: open fails and the file is untouched
\* (k = -1), or the file is created or truncated and the write fails after k rows.
WriteCsvFail(p) ==
    LET c == call[p]
        path == CurrentCsv(c)
    IN /\ c.pc = "write_csv"
       /\ \E k \in -1..(Len(c.tables[c.idx]) - 1) :
            fs' = IF k = -1 THEN fs
                  ELSE Put(fs, path, FileNode(CsvText(c.tables[c.idx], k)))
       /\ call' = [call EXCEPT ![p] = Raise(c, WriteError)]
       /\ UNCHANGED fs0

\* ------------------------------------------------------------ archive

\* FreshScratch for a scratch directory of a fixed name, reused when it exists.
FreshScratchAny(f, scratch) == TRUE

\* tempfile.mkdtemp: only a name that nothing has is taken.
FreshScratch(f, scratch) == ~Exists(f, scratch)

\* _export_to_zip, lines 51-56: the archive's path, and the scratch directory
\* tempfile.TemporaryDirectory creates under a name nothing has.
ZipBegin(p) ==
    LET c == call[p] IN
    /\ c.pc = "zip_begin"
    /\ \E s \in ScratchNames :
         LET scratch == <<Name(s, "")>> IN
         /\ FreshScratch(fs, scratch)
         /\ fs' = Put(fs, scratch, DirNode)
         /\ call' = [call EXCEPT ![p] =
                       [c EXCEPT !.zpath = ZipPath(c.output), !.tmp = scratch,
                                 !.root = scratch, !.pc = "mkdir_root"]]
    /\ UNCHANGED fs0

\* zipfile.ZipFile(zip_path, "w") (line 58): the file is created or truncated;
\* rglob lists the scratch tree's CSV files.
ZipOpen(p) ==
    LET c == call[p] IN
    /\ c.pc = "zip_open"
    /\ IF IsDir(fs, c.zpath)
       THEN /\ call' = [call EXCEPT ![p] = Raise(c, "IsADirectoryError")]
            /\ UNCHANGED fs
       ELSE /\ fs' = Put(fs, c.zpath, ZipNode(<<>>))
            /\ call' = [call EXCEPT ![p] =
                          [c EXCEPT !.zoff = 0, !.todo = RglobCsv(fs, c.root),
                                    !.pc = "zip_write"]]
    /\ UNCHANGED fs0

\* The same line with an I/O error: no file is created.
ZipOpenFail(p) ==
    LET c == call[p] IN
    /\ c.pc = "zip_open"
    /\ call' = [call EXCEPT ![p] = Raise(c, WriteError)]
    /\ UNCHANGED <<fs, fs0>>

\* The archive file after this handle has written entry at its own offset: what
\* lies before stays, a gap is left if the file is shorter.
WriteAt(entries, offset, entry) ==
    [i \in 1..Max(Len(entries), offset) |->
        IF i = offset THEN entry
        ELSE IF i <= Len(entries) THEN entries[i] ELSE Hole]

\* Lines 59-61: bundle.write(file_path, arcname) for one file of rglob, in
\* whatever order the directory scan gives.
ZipWrite(p) ==
    LET c == call[p] IN
    /\ c.pc = "zip_write"
    /\ \E file_path \in c.todo :
         IF ~IsFile(fs, file_path) \/ ~IsFile(fs, c.zpath)
         THEN /\ call' = [call EXCEPT ![p] = Raise(c, NotFoundError)]
              /\ UNCHANGED fs
         ELSE LET arcname == relative_to(file_path, c.root)
                  entry == Entry(arcname, fs[file_path].text)
              IN /\ fs' = Put(fs, c.zpath,
                              ZipNode(WriteAt(fs[c.zpath].entries, c.zoff + 1, entry)))
                 /\ call' = [call EXCEPT ![p] =
                               [c EXCEPT !.zoff = c.zoff + 1,
                                         !.todo = c.todo \ {file_path}]]
    /\ UNCHANGED fs0

\* The same lines with an I/O error: the archive keeps what was added.
ZipWriteFail(p) ==
    LET c == call[p] IN
    /\ c.pc = "zip_write"
    /\ c.todo # {}
    /\ call' = [call EXCEPT ![p] = Raise(c, WriteError)]
    /\ UNCHANGED <<fs, fs0>>

\* The end of the inner with-block: the archive is closed.
ZipClose(p) ==
    LET c == call[p] IN
    /\ c.pc = "zip_write"
    /\ c.todo = {}
    /\ call' = [call EXCEPT ![p] = [c EXCEPT !.pc = "cleanup"]]
    /\ UNCHANGED <<fs, fs0>>

\* The frame c is in once the with-block of line 54 has been left.
Leave(c) == [c EXCEPT !.pc = IF c.err = "" THEN "done" ELSE "raised"]

\* The exit of "with tempfile.TemporaryDirectory()": the scratch tree is removed,
\* then the call returns or the pending error goes on to the caller.
Cleanup(p) ==
    LET c == call[p] IN
    /\ c.pc = "cleanup"
    /\ fs' = RemoveTree(fs, c.tmp)
    /\ call' = [call EXCEPT ![p] = Leave(c)]
    /\ UNCHANGED fs0

\* ------------------------------------------------------------ specifications

Finished(c) == c.pc \in {"done", "raised"}

\* The steps of one run of main that no injected I/O error interrupts.
Step(p) ==
    \/ MainCheckInput(p)
    \/ ExtractTables(p)
    \/ MainCheckTables(p)
    \/ MainCheckDestination(p)
    \/ MkdirRoot(p)
    \/ MkdirOperator(p)
    \/ WriteCsv(p)
    \/ ZipBegin(p)
    \/ ZipOpen(p)
    \/ ZipWrite(p)
    \/ ZipClose(p)
    \/ Cleanup(p)

\* One run of main, I/O errors included, in a working directory that may hold
\* earlier output.
Init ==
    /\ fs \in InitialFilesystems
    /\ fs0 = fs
    /\ \E input \in InputPaths, output \in OutputPaths, zip \in BOOLEAN :
         call = [p \in Procs |->
                   IF p = 1 THEN NewCall("main", input, output, zip) ELSE Off]

Next ==
    \/ Step(1)
    \/ WriteCsvFail(1)
    \/ ZipOpenFail(1)
    \/ ZipWriteFail(1)

Spec == Init /\ [][Next]_vars

\* extract_tables called alone on a document, or on a path that does not exist.
ExtractInput == <<Name("input", ".docx")>>

InitExtract ==
    /\ fs \in {DocsFs} \cup
              {Put(DocsFs, ExtractInput, DocNode(doc)) :
                  doc \in SeqsUpTo(RawTables, MaxDocTables)}
    /\ fs0 = fs
    /\ call = [p \in Procs |->
                 IF p = 1 THEN NewCall("extract_tables", ExtractInput, OutPath, FALSE)
                 ELSE Off]

NextExtract == ExtractTables(1)

SpecExtract == InitExtract /\ [][NextExtract]_vars

\* Two runs of main at once, their steps interleaved in any order, in a working
\* directory that holds the documents only.
ConcOutputs == {OutPath, <<Name("out", ".zip")>>, <<Name("res", "")>>}

InitConc ==
    /\ fs = DocsFs
    /\ fs0 = fs
    /\ call \in [Procs -> {NewCall("main", DocPath(n), output, zip) :
                             n \in 1..ConcTables, output \in ConcOutputs,
                             zip \in BOOLEAN}]

NextConc == \E p \in Procs : Step(p)

SpecConc == InitConc /\ [][NextConc]_vars

\* _normalise_cell applied to a cell text, and again to what came out.
CellChars == {CR, LF, SP, "a"}

NormCall(raw) ==
    [entry |-> "_normalise_cell", pc |-> "normalise",
     raw |-> raw, cell |-> raw, prev |-> raw, applied |-> 0]

InitNormalise ==
    /\ fs = DocsFs
    /\ fs0 = fs
    /\ \E raw \in SeqsUpTo(CellChars, MaxCellLen) \cup {None} :
         call = [p \in Procs |-> IF p = 1 THEN NormCall(raw) ELSE Off]

\* One call of _normalise_cell (lines 16-21) on the current text.
NormaliseCell(p) ==
    LET c == call[p] IN
    /\ c.pc = "normalise"
    /\ c.applied < 2
    /\ call' = [call EXCEPT ![p] =
                  [c EXCEPT !.prev = c.cell, !.cell = _normalise_cell(c.cell),
                            !.applied = c.applied + 1]]
    /\ UNCHANGED <<fs, fs0>>

NextNormalise == NormaliseCell(1)

SpecNormalise == InitNormalise /\ [][NextNormalise]_vars

\* ------------------------------------------------------------ claims

\* The part of path after root.
Relative(path, root) == SubSeq(path, Len(root) + 1, Len(path))

\* A raw table is meaningful: some cell of some row is non-empty once normalised.
Meaningful(table) ==
    \E r \in 1..Len(table) : \E k \in 1..Len(table[r]) :
        _normalise_cell(table[r][k]) # <<>>

\* out is table with every cell normalised, rows and cells in their order.
NormalisedCopy(out, table) ==
    /\ Len(out) = Len(table)
    /\ \A r \in 1..Len(table) :
         /\ Len(out[r]) = Len(table[r])
         /\ \A k \in 1..Len(table[r]) : out[r][k] = _normalise_cell(table[r][k])

ExtractReturned == call[1].entry = "extract_tables" /\ call[1].pc = "done"

\* C1: extract_tables returns exactly the meaningful tables of the document, in
\* document order, each with its rows and cells in order and every cell
\* normalised: the i-th meaningful table of the document is the i-th table
\* returned, and nothing else is returned.
C1_ExtractKeepsMeaningful ==
    ExtractReturned =>
        LET doc == fs[call[1].input].doc
            out == call[1].tables
            keep == {i \in 1..Len(doc) : Meaningful(doc[i])}
            Rank(i) == Cardinality({j \in keep : j <= i})
        IN /\ Len(out) = Cardinality(keep)
           /\ \A i \in keep : NormalisedCopy(out[Rank(i)], doc[i])

\* C1 witness: a document of three tables whose second is blank gave two tables.
C1_Witness ==
    /\ ExtractReturned
    /\ Len(fs[call[1].input].doc) = 3
    /\ ~Meaningful(fs[call[1].input].doc[2])
    /\ fs[call[1].input].doc[2] # <<>>
    /\ Len(call[1].tables) = 2

\* C9: extract_tables on a path that does not exist raises FileNotFoundError
\* before the container is opened, returns no tables, and leaves the filesystem
\* as it was.
C9_MissingSourceRejected ==
    (/\ call[1].entry = "extract_tables"
     /\ ~Exists(fs0, call[1].input)
     /\ call[1].pc # "extract")
        => /\ call[1].pc = "raised"
           /\ call[1].err = NotFoundError
           /\ ~call[1].opened
           /\ call[1].tables = <<>>
           /\ fs = fs0

\* C9 witness: the call on the missing path has ended.
C9_Witness ==
    /\ call[1].entry = "extract_tables"
    /\ ~Exists(fs0, call[1].input)
    /\ call[1].pc = "raised"

\* The paths below root, relative to it, that hold a node of the given kind.
Below(f, root, kind) ==
    {Relative(q, root) : q \in {r \in DOMAIN f : Under(r, root) /\ f[r].kind = kind}}

\* <prefix><key>/<basename>_<i>.csv for operator o.
LayoutDir(prefix, o) == <<Name(prefix \o OPERATORS[o].key, "")>>
LayoutFile(prefix, o, i) ==
    Append(LayoutDir(prefix, o),
           Name(OPERATORS[o].basename \o "_" \o ToString(i), ".csv"))

\* The tree below root is the layout of tables with the given directory prefix:
\* one directory per operator, in it one file per table, file i holding the rows
\* of table i as CSV, and nothing else.
HasLayout(f, root, prefix, tables) ==
    /\ Below(f, root, "dir") = {LayoutDir(prefix, o) : o \in 1..Len(OPERATORS)}
    /\ Below(f, root, "file") =
         {LayoutFile(prefix, o, i) : o \in 1..Len(OPERATORS), i \in 1..Len(tables)}
    /\ Below(f, root, "special") = {}
    /\ \A o \in 1..Len(OPERATORS), i \in 1..Len(tables) :
         LET q == root \o LayoutFile(prefix, o, i)
         IN q \in DOMAIN f /\ f[q].text = CsvText(tables[i], Len(tables[i]))

\* A directory-mode run of main into a destination that did not exist has ended
\* without an error.
FreshDirectoryExportDone ==
    /\ call[1].entry = "main" /\ ~call[1].zip /\ call[1].pc = "done"
    /\ ~Exists(fs0, call[1].output)

\* C2 as amended: directory-mode export of n >= 1 tables into a fresh destination
\* creates, for every operator (key, basename), the subdirectory Operador_<key>
\* holding exactly <basename>_1.csv .. <basename>_n.csv, file i with the rows of
\* table i: |operators| * n files and no others.
C2_DirectoryLayout ==
    FreshDirectoryExportDone =>
        /\ Len(call[1].tables) >= 1
        /\ HasLayout(fs, call[1].output, "Operador_", call[1].tables)
        /\ Cardinality(Below(fs, call[1].output, "file"))
             = Len(OPERATORS) * Len(call[1].tables)

\* C2 witness: two tables were exported into a fresh destination.
C2_Witness == FreshDirectoryExportDone /\ Len(call[1].tables) = 2

\* C2 as claimed: the subdirectories are named Operator_<key>.
C2_AsClaimed ==
    FreshDirectoryExportDone =>
        HasLayout(fs, call[1].output, "Operator_", call[1].tables)

\* C4: when extraction gave no tables, main raises the empty-input error before
\* any filesystem change, in directory mode and in archive mode: no directory, no
\* CSV file, no scratch directory and no archive is created, and the filesystem
\* stays what it was when the call began.
C4_EmptyInputRejected ==
    (/\ call[1].entry = "main"
     /\ call[1].opened
     /\ Len(call[1].tables) = 0)
        => /\ fs = fs0
           /\ call[1].tmp = NoPath
           /\ call[1].pc \in {"check_tables", "raised"}
           /\ call[1].pc = "raised" => call[1].err = EmptyInputError

\* C4 witness: an archive-mode run on a document without data has been rejected.
C4_Witness ==
    /\ call[1].entry = "main" /\ call[1].zip /\ call[1].opened
    /\ Len(call[1].tables) = 0
    /\ call[1].pc = "raised" /\ call[1].err = EmptyInputError

\* The scratch directory of the call, or anything in it, is on disk.
ScratchOnDisk(c) ==
    \E q \in DOMAIN fs : q = c.tmp \/ Under(q, c.tmp)

\* C5: once an archive-mode call has returned or raised, its scratch directory is
\* gone: after success, after a failure while the CSV files were written into the
\* scratch tree, and after a failure while the archive was opened or filled; an
\* error reaches the caller only after the removal.
C5_ScratchRemoved ==
    (call[1].entry = "main" /\ call[1].zip /\ Finished(call[1]))
        => /\ ~(\E s \in ScratchNames : Exists(fs, <<Name(s, "")>>))
           /\ call[1].tmp # NoPath => ~ScratchOnDisk(call[1])
           /\ Len(call[1].tables) > 0 => call[1].tmp # NoPath

\* C5 witness: adding entries failed after the first entry, and the call raised.
C5_Witness ==
    /\ call[1].entry = "main" /\ call[1].zip
    /\ call[1].pc = "raised" /\ call[1].err = WriteError
    /\ call[1].zoff >= 1 /\ call[1].todo # {}
    /\ ~ScratchOnDisk(call[1])

\* A directory-mode run of main that has got past the check of its destination.
PastDestinationCheck ==
    /\ call[1].entry = "main" /\ ~call[1].zip
    /\ Len(call[1].tables) > 0
    /\ call[1].pc \notin {"check_tables", "check_destination"}

\* C6 as amended: directory-mode export fails with the invalid-target error, and
\* writes nothing, whenever the destination is a regular file; the check does not
\* fail when the destination does not exist or is a directory; a destination that
\* exists and is neither (a device, a FIFO) passes the check, and the export then
\* fails in mkdir with FileExistsError, still writing nothing.
C6_FileDestinationRejected ==
    PastDestinationCheck =>
        /\ IsFile(fs0, call[1].output)
             => /\ call[1].pc = "raised" /\ call[1].err = InvalidTargetError
                /\ fs = fs0
        /\ call[1].err = InvalidTargetError => IsFile(fs0, call[1].output)
        /\ (Exists(fs0, call[1].output) /\ ~IsDir(fs0, call[1].output)
              /\ ~IsFile(fs0, call[1].output))
             => /\ call[1].pc \in {"mkdir_root", "raised"}
                /\ call[1].pc = "raised" => call[1].err = "FileExistsError"
                /\ fs = fs0

\* C6 witness: a destination that is a regular file has been rejected.
C6_Witness ==
    /\ PastDestinationCheck
    /\ IsFile(fs0, call[1].output)
    /\ call[1].pc = "raised" /\ call[1].err = InvalidTargetError

\* C6 as claimed: the invalid-target error whenever the destination exists and is
\* not a directory.
C6_AsClaimed ==
    (/\ PastDestinationCheck /\ Finished(call[1])
     /\ Exists(fs0, call[1].output) /\ ~IsDir(fs0, call[1].output))
        => /\ call[1].pc = "raised" /\ call[1].err = InvalidTargetError
           /\ fs = fs0

\* The caller's path with suffix appended to its whole name.
AppendSuffix(path, suffix) ==
    [path EXCEPT ![Len(path)] =
        Name(path[Len(path)].stem \o path[Len(path)].suffix, suffix)]

\* C7 as claimed: the archive is at the caller's path when that ends in .zip, and
\* otherwise at the caller's path with .zip appended, the caller's whole file name
\* being a prefix of the archive's.
C7_AsClaimed ==
    (call[1].entry = "main" /\ call[1].zip /\ call[1].zpath # NoPath)
        => call[1].zpath =
             IF Suffix(call[1].output) = ".zip" THEN call[1].output
             ELSE AppendSuffix(call[1].output, ".zip")

\* (o, i) is before, or after, the position (opi, idx) of the loops.
Before(o, i, c) == o < c.opi \/ (o = c.opi /\ i < c.idx)
After(o, i, c) == o > c.opi \/ (o = c.opi /\ i > c.idx)

PositionPath(c, o, i) ==
    CsvPath(OperatorDir(c.root, OPERATORS[o].key), OPERATORS[o].basename, i)

\* C8: when a CSV write fails in directory mode at (operator, table), the error
\* reaches the caller, every file of an earlier position is on disk with its full
\* content, and no file of a later position (a later table of the operator, any
\* table of a later operator) has been written by the call.
C8_PartialExportKept ==
    LET c == call[1] IN
    (c.entry = "main" /\ ~c.zip /\ c.err = WriteError)
        => /\ c.pc = "raised"
           /\ \A o \in 1..Len(OPERATORS), i \in 1..Len(c.tables) :
                LET q == PositionPath(c, o, i) IN
                /\ Before(o, i, c)
                     => /\ IsFile(fs, q)
                        /\ fs[q].text = CsvText(c.tables[i], Len(c.tables[i]))
                /\ After(o, i, c)
                     => /\ Exists(fs, q) <=> Exists(fs0, q)
                        /\ Exists(fs, q) => fs[q] = fs0[q]

\* C8 witness: the first table of the second operator failed, with two tables.
C8_Witness ==
    LET c == call[1] IN
    /\ c.entry = "main" /\ ~c.zip /\ c.err = WriteError /\ c.pc = "raised"
    /\ c.opi = 2 /\ c.idx = 1 /\ Len(c.tables) = 2
    /\ ~Exists(fs0, c.output)

\* The nodes at and below root.
Tree(f, root) ==
    [q \in {r \in DOMAIN f : r = root \/ Under(r, root)} |-> f[q]]

EmptyFs == [q \in {} |-> DirNode]

\* The files a directory-mode export of tables into a fresh directory produces,
\* each as its path relative to the directory and its content.
FreshExportFiles(tables) ==
    LET root == <<Name("fresh", "")>>
        f == ExportDirectoriesRun(Mkdir(EmptyFs, root).fs, root, tables, 1)
    IN {Entry(Relative(q, root), f[q].text) :
            q \in {r \in DOMAIN f : Under(r, root) /\ f[r].kind = "file"}}

\* The archive at zpath holds exactly the entries E, each once.
ArchiveIs(f, zpath, E) ==
    /\ IsFile(f, zpath)
    /\ {f[zpath].entries[i] : i \in 1..Len(f[zpath].entries)} = E
    /\ Len(f[zpath].entries) = Cardinality(E)

Target(c) == IF c.zip THEN ZipPath(c.output) ELSE c.output

\* Two paths are the same or one lies in the other.
Overlap(a, b) == a = b \/ Under(a, b) \/ Under(b, a)

\* The call is inside the with-block of its scratch directory.
HoldsScratch(c) == c.tmp # NoPath /\ ~Finished(c)

\* What the call leaves at its target is what it leaves there when it runs alone
\* from the same working directory.
ResultAsAlone(c) ==
    IF c.zip THEN ArchiveIs(fs, c.zpath, FreshExportFiles(c.tables))
    ELSE Tree(fs, c.output)
           = Tree(ExportDirectoriesRun(Mkdir(fs0, c.output).fs, c.output,
                                       c.tables, 1),
                  c.output)

\* C10 as amended: two export calls at once, their file operations interleaved in
\* any order, do not interfere when the places their output goes to (the
\* destination directory; the archive path after the .zip rule) are neither the
\* same nor inside one another: each call in archive mode holds a scratch
\* directory of its own, each call ends without an error, and what it leaves at
\* its target is what it leaves when run alone.
C10_DisjointTargetsIndependent ==
    \A p \in Procs, q \in Procs :
        p # q =>
            /\ (HoldsScratch(call[p]) /\ HoldsScratch(call[q]))
                 => ~Overlap(call[p].tmp, call[q].tmp)
            /\ ~Overlap(Target(call[p]), Target(call[q]))
                 => /\ call[p].pc # "raised"
                    /\ call[p].pc = "done" => ResultAsAlone(call[p])

\* C10 witness: two archive-mode calls with different targets have both ended,
\* each after using its own scratch directory.
C10_Witness ==
    /\ call[1].zip /\ call[2].zip
    /\ call[1].pc = "done" /\ call[2].pc = "done"
    /\ ~Overlap(Target(call[1]), Target(call[2]))
    /\ call[1].tmp # call[2].tmp

\* C10 as claimed: no interference whenever the destination paths the callers
\* gave are distinct.
C10_AsClaimed ==
    \A p \in Procs, q \in Procs :
        (p # q /\ call[p].output # call[q].output)
            => /\ call[p].pc # "raised"
               /\ call[p].pc = "done" => ResultAsAlone(call[p])

\* The text holds a carriage return directly followed by a line feed.
HasCRLF(s) == \E k \in 1..(Len(s) - 1) : s[k] = CR /\ s[k + 1] = LF

\* The text begins or ends with whitespace.
HasOuterSpace(s) == Len(s) > 0 /\ (IsSpace(s[1]) \/ IsSpace(s[Len(s)]))

\* C11 as claimed: the normaliser is idempotent: what it returns holds no CRLF and
\* no leading or trailing whitespace, and a second application returns the text
\* the first returned.
C11_AsClaimed ==
    /\ call[1].entry = "_normalise_cell" /\ call[1].applied >= 1
         => ~HasCRLF(call[1].cell) /\ ~HasOuterSpace(call[1].cell)
    /\ call[1].entry = "_normalise_cell" /\ call[1].applied = 2
         => call[1].cell = call[1].prev

\* The files a directory-mode export of the tables writes below root, the
\* operators' directories named <prefix><key>.
TargetFiles(root, prefix, tables) ==
    {root \o LayoutFile(prefix, o, i) : o \in 1..Len(OPERATORS), i \in 1..Len(tables)}

\* The directories such an export may have to create: root, the directories
\* above it and the operators' directories.
TargetDirs(root, prefix) ==
    {SubSeq(root, 1, k) : k \in 1..Len(root)}
    \cup {root \o LayoutDir(prefix, o) : o \in 1..Len(OPERATORS)}

\* A directory-mode run of main changes nothing but the target files: whatever
\* the filesystem held when the run began and is no target file is still there
\* and unchanged, whatever is new is a target file or a directory the export
\* needs, and when the run has ended without an error every target file holds
\* the rows of its table.
OnlyTargetsChange(prefix) ==
    LET c == call[1]
        targets == TargetFiles(c.output, prefix, c.tables)
    IN (c.entry = "main" /\ ~c.zip) =>
         /\ \A q \in DOMAIN fs0 \ targets : q \in DOMAIN fs /\ fs[q] = fs0[q]
         /\ \A q \in DOMAIN fs \ DOMAIN fs0 :
              \/ q \in targets /\ fs[q].kind = "file"
              \/ q \in TargetDirs(c.output, prefix) /\ fs[q].kind = "dir"
         /\ c.pc = "done" =>
              \A o \in 1..Len(OPERATORS), i \in 1..Len(c.tables) :
                 LET q == c.output \o LayoutFile(prefix, o, i)
                 IN q \in DOMAIN fs
                    /\ fs[q] = FileNode(CsvText(c.tables[i], Len(c.tables[i])))

\* C12 as amended: directory-mode export of n tables into a destination that
\* already holds files changes only the files named Operador_<key>/<basename>_<i>.csv
\* for registered operators and 1 <= i <= n, each replaced by the new content;
\* every other file that was there, <basename>_<j>.csv with j > n of an earlier
\* export of more tables included, is unchanged and is not deleted.
C12_OtherFilesKept == OnlyTargetsChange("Operador_")

\* C12 witness: one table was exported into the destination in use: the first
\* file of every operator holds the new rows, one of them in place of another
\* content, and the second files and the file of another name are as they were.
C12_Witness ==
    LET c == call[1]
        directory == c.output \o LayoutDir("Operador_", 1)
        first == c.output \o LayoutFile("Operador_", 1, 1)
        stale == c.output \o LayoutFile("Operador_", 1, 2)
        other == Append(directory, Name("notes", ".txt"))
    IN /\ c.entry = "main" /\ ~c.zip /\ c.pc = "done"
       /\ fs0 = UsedDestination /\ c.output = OutPath
       /\ Len(c.tables) = 1
       /\ fs[first] # fs0[first]
       /\ stale \in DOMAIN fs /\ fs[stale] = fs0[stale]
       /\ other \in DOMAIN fs /\ fs[other] = fs0[other]

\* C12 as claimed: the files that change are named Operator_<key>/<basename>_<i>.csv.
C12_AsClaimed == OnlyTargetsChange("Operator_")

====
